---- MODULE Spec2Model ----
(***************************************************************************)
(* A model of src/inference/datasets/bigearthnet.py: the BigEarthNet       *)
(* dataset adapter.  The state is the class-level vocabulary class_sets    *)
(* (shared by every instance and mutated in place by __init__), the files  *)
(* that exist under root, the instances that were constructed, and a       *)
(* record of the last call with its inputs, outcome and side effects.      *)
(*                                                                         *)
(* The two lists of class_sets are only ever appended to, so the state     *)
(* keeps the names appended to each (the variable appended) and class_sets *)
(* is the module's list followed by them.  In the same way an instance     *)
(* keeps, for its dict class2idx, the names that had been appended to      *)
(* class_sets[43] when the dict was built from that list.                  *)
(*                                                                         *)
(* Strings whose characters the code inspects (manifest contents, band     *)
(* codes) are sequences of one-character strings; class names, file names  *)
(* and option values, which the code only compares for equality, are       *)
(* strings.  A tensor of length n is a sequence of n numbers whose         *)
(* position p+1 holds the entry of index p.                                *)
(***************************************************************************)
EXTENDS Integers, Sequences, FiniteSets, TLC

VARIABLES appended, exists, instances, last

vars == <<appended, exists, instances, last>>

(***************************************************************************)
(* Bounds of the model.                                                    *)
(***************************************************************************)
\* instances constructed in one process
MaxInstances == 2
\* instances constructed where one construction at a time is studied
MaxIsolatedInstances == 1
\* names in one label file
MaxLabels == 2
\* characters in a split manifest
MaxManifestLen == 4
\* raster files listed in a Sentinel-2 sample folder
MaxS2Files == 3
\* set positions of a label mask
MaxSetPositions == 1

(***************************************************************************)
(* Helpers.                                                                *)
(***************************************************************************)
Range(s) == {s[i] : i \in DOMAIN s}

Contains(s, x) == \E i \in DOMAIN s : s[i] = x

SeqsUpTo(S, n) == UNION {[1..k -> S] : k \in 0..n}

\* the sequences over S without repeated elements, of length at most n
ListingsUpTo(S, n) ==
    {s \in SeqsUpTo(S, n) : \A i, j \in DOMAIN s : i # j => s[i] # s[j]}

(***************************************************************************)
(* Class attributes.                                                       *)
(***************************************************************************)
class_sets_19 ==
    << "Urban fabric",
       "Industrial or commercial units",
       "Arable land",
       "Permanent crops",
       "Pastures",
       "Complex cultivation patterns",
       "Land principally occupied by agriculture, with significant areas of natural vegetation",
       "Agro-forestry areas",
       "Broad-leaved forest",
       "Coniferous forest",
       "Mixed forest",
       "Natural grassland and sparsely vegetated areas",
       "Moors, heathland and sclerophyllous vegetation",
       "Transitional woodland, shrub",
       "Beaches, dunes, sands",
       "Inland wetlands",
       "Coastal wetlands",
       "Inland waters",
       "Marine waters" >>

class_sets_43 ==
    << "Continuous urban fabric",
       "Discontinuous urban fabric",
       "Industrial or commercial units",
       "Road and rail networks and associated land",
       "Port areas",
       "Airports",
       "Mineral extraction sites",
       "Dump sites",
       "Construction sites",
       "Green urban areas",
       "Sport and leisure facilities",
       "Non-irrigated arable land",
       "Permanently irrigated land",
       "Rice fields",
       "Vineyards",
       "Fruit trees and berry plantations",
       "Olive groves",
       "Pastures",
       "Annual crops associated with permanent crops",
       "Complex cultivation patterns",
       "Land principally occupied by agriculture, with significant areas of natural vegetation",
       "Agro-forestry areas",
       "Broad-leaved forest",
       "Coniferous forest",
       "Mixed forest",
       "Natural grassland",
       "Moors and heathland",
       "Sclerophyllous vegetation",
       "Transitional woodland/shrub",
       "Beaches, dunes, sands",
       "Bare rock",
       "Sparsely vegetated areas",
       "Burnt areas",
       "Inland marshes",
       "Peatbogs",
       "Salt marshes",
       "Salines",
       "Intertidal flats",
       "Water courses",
       "Water bodies",
       "Coastal lagoons",
       "Estuaries",
       "Sea and ocean" >>

\* the class attribute as the module defines it, before any construction
class_sets_initial == (19 :> class_sets_19) @@ (43 :> class_sets_43)

\* the class attribute as it is now
class_sets ==
    (19 :> class_sets_19 \o appended[19]) @@ (43 :> class_sets_43 \o appended[43])

\* the names a vocabulary holds after the module's own
AppendedTo(cs) ==
    (19 :> SubSeq(cs[19], Len(class_sets_19) + 1, Len(cs[19])))
    @@ (43 :> SubSeq(cs[43], Len(class_sets_43) + 1, Len(cs[43])))

\* a converter with one entry pointing past the 19 classes
label_converter_out_of_range ==
    (0 :> 0) @@ (1 :> 0) @@ (2 :> 1) @@ (11 :> 2) @@ (12 :> 2) @@ (13 :> 2)
    @@ (14 :> 3) @@ (15 :> 3) @@ (16 :> 3) @@ (18 :> 3) @@ (17 :> 4)
    @@ (19 :> 5) @@ (20 :> 6) @@ (21 :> 7) @@ (22 :> 8) @@ (23 :> 9)
    @@ (24 :> 10) @@ (25 :> 11) @@ (31 :> 11) @@ (26 :> 12) @@ (27 :> 12)
    @@ (28 :> 13) @@ (29 :> 14) @@ (33 :> 15) @@ (34 :> 15) @@ (35 :> 16)
    @@ (36 :> 16) @@ (38 :> 17) @@ (39 :> 17) @@ (40 :> 18) @@ (41 :> 18)
    @@ (42 :> 19)

label_converter ==
    (0 :> 0) @@ (1 :> 0) @@ (2 :> 1) @@ (11 :> 2) @@ (12 :> 2) @@ (13 :> 2)
    @@ (14 :> 3) @@ (15 :> 3) @@ (16 :> 3) @@ (18 :> 3) @@ (17 :> 4)
    @@ (19 :> 5) @@ (20 :> 6) @@ (21 :> 7) @@ (22 :> 8) @@ (23 :> 9)
    @@ (24 :> 10) @@ (25 :> 11) @@ (31 :> 11) @@ (26 :> 12) @@ (27 :> 12)
    @@ (28 :> 13) @@ (29 :> 14) @@ (33 :> 15) @@ (34 :> 15) @@ (35 :> 16)
    @@ (36 :> 16) @@ (38 :> 17) @@ (39 :> 17) @@ (40 :> 18) @@ (41 :> 18)
    @@ (42 :> 18)

splits_metadata ==
    [ train |-> [ url |-> "https://git.tu-berlin.de/rsim/BigEarthNet-MM_19-classes_models/-/raw/9a5be07346ab0884b2d9517475c27ef9db9b5104/splits/train.csv?inline=false",
                  filename |-> "bigearthnet-train.csv",
                  md5 |-> "623e501b38ab7b12fe44f0083c00986d" ],
      val   |-> [ url |-> "https://git.tu-berlin.de/rsim/BigEarthNet-MM_19-classes_models/-/raw/9a5be07346ab0884b2d9517475c27ef9db9b5104/splits/val.csv?inline=false",
                  filename |-> "bigearthnet-val.csv",
                  md5 |-> "22efe8ed9cbd71fa10742ff7df2b7978" ],
      test  |-> [ url |-> "https://git.tu-berlin.de/rsim/BigEarthNet-MM_19-classes_models/-/raw/9a5be07346ab0884b2d9517475c27ef9db9b5104/splits/test.csv?inline=false",
                  filename |-> "bigearthnet-test.csv",
                  md5 |-> "697fb90677e30571b9ac7699b7e5b432" ] ]

\* the keys of splits_metadata in the order the dict literal gives them
splits_metadata_keys == <<"train", "val", "test">>

metadata ==
    [ s1 |-> [ url |-> "https://bigearth.net/downloads/BigEarthNet-S1-v1.0.tar.gz",
               md5 |-> "94ced73440dea8c7b9645ee738c5a172",
               filename |-> "BigEarthNet-S1-v1.0.tar.gz",
               directory |-> "sentinel-1" ],
      s2 |-> [ url |-> "https://bigearth.net/downloads/BigEarthNet-S2-v1.0.tar.gz",
               md5 |-> "5a64e9ce38deb036a435a7b59494924c",
               filename |-> "BigEarthNet-S2-v1.0.tar.gz",
               directory |-> "sentinel-2" ] ]

\* the default root directory of the constructor
root == "data"

\* every path under root that _verify looks at
RootEntries ==
    {splits_metadata[k].filename : k \in Range(splits_metadata_keys)}
    \cup {metadata[k].filename : k \in {"s1", "s2"}}
    \cup {metadata[k].directory : k \in {"s1", "s2"}}

(***************************************************************************)
(* Python's str methods, on sequences of characters.                       *)
(***************************************************************************)
\* str.isspace for one character
IsSpace(c) == c \in {" ", "\t", "\n", "\r"}

\* the first position of character c in s, 0 when it does not occur
FirstIndex(s, c) ==
    IF \E i \in DOMAIN s : s[i] = c
    THEN CHOOSE i \in DOMAIN s : s[i] = c /\ \A j \in 1..(i - 1) : s[j] # c
    ELSE 0

RECURSIVE lstrip(_)
lstrip(s) == IF s # <<>> /\ IsSpace(Head(s)) THEN lstrip(Tail(s)) ELSE s

RECURSIVE rstrip(_)
rstrip(s) ==
    IF s # <<>> /\ IsSpace(s[Len(s)]) THEN rstrip(SubSeq(s, 1, Len(s) - 1)) ELSE s

\* str.strip(): whitespace removed at both ends, never inside
str_strip(s) == rstrip(lstrip(s))

\* str.splitlines(): a line ends at each newline; a final newline opens no line
RECURSIVE str_splitlines(_)
str_splitlines(s) ==
    IF s = <<>> THEN <<>>
    ELSE LET n == FirstIndex(s, "\n")
         IN  IF n = 0 THEN <<s>>
             ELSE <<SubSeq(s, 1, n - 1)>> \o str_splitlines(SubSeq(s, n + 1, Len(s)))

\* str.split(sep) for a one-character separator: always at least one token
RECURSIVE str_split(_, _)
str_split(s, sep) ==
    LET n == FirstIndex(s, sep)
    IN  IF n = 0 THEN <<s>>
        ELSE <<SubSeq(s, 1, n - 1)>> \o str_split(SubSeq(s, n + 1, Len(s)), sep)

(***************************************************************************)
(* Verification, download and extraction.  A call's side effects are       *)
(* returned as the files that exist afterwards and the list of events      *)
(* (existence tests, extractions, downloads, opens) in program order.      *)
(***************************************************************************)
\* filepath.endswith(".csv"): the split manifests are the .csv files
EndsWithCsv(filename) ==
    filename \in {splits_metadata[k].filename : k \in Range(splits_metadata_keys)}

\* the directory extract_archive unpacks an archive into
ArchiveDirectory(filename) ==
    metadata[CHOOSE k \in {"s1", "s2"} : metadata[k].filename = filename].directory

_extract(fs, filepath) ==
    IF ~EndsWithCsv(filepath)
    THEN [exists |-> fs \cup {ArchiveDirectory(filepath)},
          events |-> <<[ev |-> "extract_archive", path |-> filepath]>>]
    ELSE [exists |-> fs, events |-> <<>>]

\* download_url stores the file under root; the existence test of line 521 is
\* on the bare filename, relative to the working directory, which is taken to
\* be another directory than root and to hold no such file
_download(fs, filename) ==
    [exists |-> fs \cup {filename},
     events |-> <<[ev |-> "exists_in_cwd", path |-> filename],
                  [ev |-> "download_url", path |-> filename]>>]

\* the loop of lines 488-494: every archive or manifest found is extracted
RECURSIVE ExtractExisting(_, _)
ExtractExisting(fs, filenames) ==
    IF filenames = <<>> THEN [exists |-> fs, events |-> <<>>, found |-> <<>>]
    ELSE LET f    == Head(filenames)
             here == IF f \in fs THEN _extract(fs, f)
                                 ELSE [exists |-> fs, events |-> <<>>]
             rest == ExtractExisting(here.exists, Tail(filenames))
         IN  [exists |-> rest.exists,
              events |-> <<[ev |-> "exists", path |-> f]>> \o here.events
                         \o rest.events,
              found  |-> <<f \in fs>> \o rest.found]

\* the loop of lines 508-511
RECURSIVE DownloadAll(_, _)
DownloadAll(fs, filenames) ==
    IF filenames = <<>> THEN [exists |-> fs, events |-> <<>>]
    ELSE LET d    == _download(fs, Head(filenames))
             x    == _extract(d.exists, Head(filenames))
             rest == DownloadAll(x.exists, Tail(filenames))
         IN  [exists |-> rest.exists,
              events |-> d.events \o x.events \o rest.events]

all(bs) == \A i \in DOMAIN bs : bs[i]

\* downloading although no download was requested
RaisesWhenMissing_never(download) == FALSE

\* line 500: the error is raised only when no download was requested
RaisesWhenMissing(download) == ~download

_verify(fs, bands, download) ==
    LET keys == IF bands = "all" THEN <<"s1", "s2">> ELSE <<bands>>
        filenames_splits ==
            [i \in DOMAIN splits_metadata_keys |->
                splits_metadata[splits_metadata_keys[i]].filename]
        filenames ==
            [i \in DOMAIN keys |-> metadata[keys[i]].filename] \o filenames_splits
        directories == [i \in DOMAIN keys |-> metadata[keys[i]].directory]
        checked == filenames_splits \o directories
        tests == [i \in DOMAIN checked |-> [ev |-> "exists", path |-> checked[i]]]
        present == [i \in DOMAIN checked |-> checked[i] \in fs]
        x == ExtractExisting(fs, filenames)
        d == DownloadAll(x.exists, filenames)
    IN  IF all(present)
        THEN [error |-> "none", exists |-> fs, events |-> tests]
        ELSE IF all(x.found)
        THEN [error |-> "none", exists |-> x.exists, events |-> tests \o x.events]
        ELSE IF RaisesWhenMissing(download)
        THEN [error |-> "RuntimeError", exists |-> x.exists,
              events |-> tests \o x.events]
        ELSE [error |-> "none", exists |-> d.exists,
              events |-> tests \o x.events \o d.events]

(***************************************************************************)
(* The sample index.                                                       *)
(***************************************************************************)
\* os.path.join: a path is the tuple of its components
_load_folders(fs, split, content) ==
    LET filename == splits_metadata[split].filename
        dir_s1   == metadata["s1"].directory
        dir_s2   == metadata["s2"].directory
        lines    == str_splitlines(str_strip(content))
        pairs    == [i \in DOMAIN lines |-> str_split(lines[i], ",")]
    IN  IF filename \notin fs
        THEN [error |-> "FileNotFoundError", folders |-> <<>>,
              events |-> <<[ev |-> "open", path |-> filename]>>]
        ELSE [error |-> "none",
              folders |-> [i \in DOMAIN pairs |->
                              [s1 |-> <<root, dir_s1, pairs[i][1]>>,
                               s2 |-> <<root, dir_s2, pairs[i][1]>>]],
              events |-> <<[ev |-> "open", path |-> filename]>>]

(***************************************************************************)
(* Construction.                                                           *)
(***************************************************************************)
\* the dict comprehension of line 308: a repeated name keeps its last index
class2idx_of(names) ==
    [c \in Range(names) |->
        (CHOOSE i \in DOMAIN names :
            names[i] = c /\ \A j \in (i + 1)..Len(names) : names[j] # c) - 1]

\* the class-count assertion left out
ArgsLegal_any_num_classes(split, bands, num_classes) ==
    /\ split \in DOMAIN splits_metadata
    /\ bands \in {"s1", "s2", "all"}

\* the three assertions of lines 298-300
ArgsLegal(split, bands, num_classes) ==
    /\ split \in DOMAIN splits_metadata
    /\ bands \in {"s1", "s2", "all"}
    /\ num_classes \in {43, 19}

\* the list self.class2idx was built from at line 308: class_sets[43] as it
\* was then; its names are the keys of the dict
class2idx_names(self) == class_sets_43 \o self.class2idx_from

\* self.class2idx
class2idx(self) == class2idx_of(class2idx_names(self))

\* appending without looking for an earlier append
AppendsOther_unguarded(cs, other_features) == other_features

\* the condition of line 313
AppendsOther(cs, other_features) ==
    other_features /\ ~Contains(cs[19], "Other features")

NoInstance == [root |-> "none"]

\* the record of the last call while no call is under way
NoCall == [op |-> "none"]

\* The constructor: the vocabulary cs and the files fs it finds, its arguments
\* and the content of the split manifest it reads.  Returns the error raised
\* ("none" when it returns), the vocabulary and files it leaves, the events in
\* program order and the instance.  The fields requested and manifest of the
\* instance are history: the class count asked for and the content read.
__init__(cs, fs, split, bands, num_classes, download, other_features, content) ==
    LET v  == _verify(fs, bands, download)
        lf == _load_folders(v.exists, split, content)
        grow == AppendsOther(cs, other_features)
    IN  IF ~ArgsLegal(split, bands, num_classes)
        THEN [error |-> "AssertionError", class_sets |-> cs, exists |-> fs,
              events |-> <<>>, self |-> NoInstance]
        ELSE IF v.error # "none"
        THEN [error |-> v.error, class_sets |-> cs, exists |-> v.exists,
              events |-> v.events, self |-> NoInstance]
        ELSE IF lf.error # "none"
        THEN [error |-> lf.error, class_sets |-> cs, exists |-> v.exists,
              events |-> v.events \o lf.events, self |-> NoInstance]
        ELSE [error |-> "none",
              class_sets |->
                  IF grow
                  THEN (19 :> Append(cs[19], "Other features"))
                       @@ (43 :> Append(cs[43], "Other features"))
                  ELSE cs,
              exists |-> v.exists,
              events |-> v.events \o lf.events,
              self |-> [root |-> root,
                        split |-> split,
                        bands |-> bands,
                        num_classes |-> IF grow THEN num_classes + 1
                                                ELSE num_classes,
                        download |-> download,
                        class2idx_from |-> AppendedTo(cs)[43],
                        folders |-> lf.folders,
                        other_features |-> other_features,
                        requested |-> num_classes,
                        manifest |-> content]]

\* One construction in a process that holds fewer than cap instances.
Construct(cap, split, bands, num_classes, download, other_features, content) ==
    /\ last = NoCall
    /\ Len(instances) < cap
    /\ LET r == __init__(class_sets, exists, split, bands, num_classes,
                         download, other_features, content)
       IN  /\ appended' = AppendedTo(r.class_sets)
           /\ exists' = r.exists
           /\ instances' = IF r.error = "none" THEN Append(instances, r.self)
                                               ELSE instances
           /\ last' = [op |-> "__init__",
                       args |-> [split |-> split, bands |-> bands,
                                 num_classes |-> num_classes,
                                 download |-> download,
                                 other_features |-> other_features],
                       found |-> exists,
                       error |-> r.error,
                       events |-> r.events]

(***************************************************************************)
(* Band resolution.  A raster path is its sample folder and the band code  *)
(* its file name ends with; the files of one folder share the rest of the  *)
(* name, so the order of two path strings of a folder is the order of      *)
(* their band codes.                                                       *)
(***************************************************************************)
\* the code point of a character of a band code
ord(c) ==
    CASE c = "0" -> 48 [] c = "1" -> 49 [] c = "2" -> 50 [] c = "3" -> 51
      [] c = "4" -> 52 [] c = "5" -> 53 [] c = "6" -> 54 [] c = "7" -> 55
      [] c = "8" -> 56 [] c = "9" -> 57 [] c = "A" -> 65 [] c = "B" -> 66
      [] c = "H" -> 72 [] c = "V" -> 86

\* Python's < on strings: the first differing character decides, a proper
\* prefix comes first
str_less(a, b) ==
    \E k \in 1..Len(b) :
        /\ \A j \in 1..(k - 1) : j <= Len(a) /\ a[j] = b[j]
        /\ k - 1 <= Len(a)
        /\ (k = Len(a) + 1 \/ ord(a[k]) < ord(b[k]))

\* sort_sentinel2_bands of datasets/utils.py: the band code, with B8A keyed
\* as B08A so that it sorts between B08 and B09
sort_sentinel2_bands(x) ==
    IF x.code = <<"B", "8", "A">> THEN <<"B", "0", "8", "A">> ELSE x.code

\* the key of a plain sorted(paths): the path string itself
path_string(x) == x.code

\* sorted(s, key=...): stable, ascending in the key; keys[i] is the key of s[i]
sorted(s, keys) ==
    LET rank(i) ==
            Cardinality({j \in DOMAIN s :
                            \/ str_less(keys[j], keys[i])
                            \/ keys[j] = keys[i] /\ j < i}) + 1
    IN  [p \in 1..Len(s) |-> s[CHOOSE i \in DOMAIN s : rank(i) = p]]

\* sorted(paths)
sorted_paths(paths) ==
    sorted(paths, [i \in DOMAIN paths |-> path_string(paths[i])])

\* sorted(paths, key=sort_sentinel2_bands)
sorted_bands(paths) ==
    sorted(paths, [i \in DOMAIN paths |-> sort_sentinel2_bands(paths[i])])

\* glob.glob(os.path.join(folder, "*.tif")) for a listing of band codes
glob_tif(folder, listing) ==
    [i \in DOMAIN listing |-> [folder |-> folder, code |-> listing[i]]]

\* the combined mode keeping the order glob lists the Sentinel-1 files in
_load_paths_s1_as_listed(self, index, listing_s1, listing_s2) ==
    IF self.bands = "all"
    THEN glob_tif(self.folders[index + 1].s1, listing_s1)
         \o sorted_bands(glob_tif(self.folders[index + 1].s2, listing_s2))
    ELSE IF self.bands = "s1"
    THEN sorted_paths(glob_tif(self.folders[index + 1].s1, listing_s1))
    ELSE sorted_bands(glob_tif(self.folders[index + 1].s2, listing_s2))

\* listing_s1 and listing_s2 are what glob returns for the two folders
_load_paths(self, index, listing_s1, listing_s2) ==
    IF self.bands = "all"
    THEN LET folder_s1 == self.folders[index + 1].s1
             folder_s2 == self.folders[index + 1].s2
             paths_s1  == sorted_paths(glob_tif(folder_s1, listing_s1))
             paths_s2  == sorted_bands(glob_tif(folder_s2, listing_s2))
         IN  paths_s1 \o paths_s2
    ELSE IF self.bands = "s1"
    THEN sorted_paths(glob_tif(self.folders[index + 1].s1, listing_s1))
    ELSE sorted_bands(glob_tif(self.folders[index + 1].s2, listing_s2))

(***************************************************************************)
(* Label loading.                                                          *)
(***************************************************************************)
\* the folder chosen whenever Sentinel-2 files are loaded
label_folder_s2_when_loaded(self, index) ==
    IF self.bands = "s2" \/ self.bands = "all"
    THEN self.folders[index + 1].s2
    ELSE self.folders[index + 1].s1

\* lines 435-438: the folder whose json file holds the labels
label_folder(self, index) ==
    IF self.bands = "s2" THEN self.folders[index + 1].s2
                         ELSE self.folders[index + 1].s1

\* the reduction applied only without the extra class
reduces_to_19_without_other(num_classes) == num_classes = 19

\* the condition of line 448
reduces_to_19(num_classes) == num_classes = 19 \/ num_classes = 20

\* lines 449-450: label_converter.get on every index, the misses left out
RECURSIVE convert(_)
convert(indices) ==
    IF indices = <<>> THEN <<>>
    ELSE IF Head(indices) \in DOMAIN label_converter
    THEN <<label_converter[Head(indices)]>> \o convert(Tail(indices))
    ELSE convert(Tail(indices))

\* labels is the "labels" field of the folder's json file.  Returns the error
\* raised ("none" when it returns), the folder read and the target tensor.
_load_target(self, index, labels) ==
    LET folder  == label_folder(self, index)
        names   == labels
        lookup  == class2idx(self)
        indices == [i \in DOMAIN names |-> lookup[names[i]]]
        mapped  == IF reduces_to_19(self.num_classes) THEN convert(indices)
                                                      ELSE indices
    IN  IF \E i \in DOMAIN names : ~Contains(class2idx_names(self), names[i])
        THEN [error |-> "KeyError", folder |-> folder, target |-> <<>>]
        ELSE IF \E i \in DOMAIN mapped : mapped[i] >= self.num_classes
        THEN [error |-> "IndexError", folder |-> folder, target |-> <<>>]
        ELSE [error |-> "none", folder |-> folder,
              target |-> [p \in 1..self.num_classes |->
                            IF \E i \in DOMAIN mapped : mapped[i] = p - 1
                            THEN 1 ELSE 0]]

__len__(self) == Len(self.folders)

\* the names appended in the loop of lines 547-549 from position i on, where
\* every lookup succeeds
RECURSIVE names_from(_, _, _)
names_from(names, label_mask, i) ==
    IF i >= Len(label_mask) THEN <<>>
    ELSE IF label_mask[i + 1]
    THEN <<names[i + 1]>> \o names_from(names, label_mask, i + 1)
    ELSE names_from(names, label_mask, i + 1)

\* cs is the class attribute that self.class_sets resolves to.  A set
\* position looks up cs[self.num_classes] and then its entry i, so the first
\* set position raises KeyError when the class count is no key, and the
\* first set position past the list raises IndexError.  Returns the error
\* raised ("none" when it returns) and the list of names.
_onehot_labels_to_names(self, cs, label_mask) ==
    LET set == {i \in 0..(Len(label_mask) - 1) : label_mask[i + 1]}
    IN  IF set = {}
        THEN [error |-> "none", labels |-> <<>>]
        ELSE IF self.num_classes \notin DOMAIN cs
        THEN [error |-> "KeyError", labels |-> <<>>]
        ELSE IF \E i \in set : i >= Len(cs[self.num_classes])
        THEN [error |-> "IndexError", labels |-> <<>>]
        ELSE [error |-> "none",
              labels |-> names_from(cs[self.num_classes], label_mask, 0)]

(***************************************************************************)
(* The calls on an instance.                                               *)
(***************************************************************************)
LoadTarget(i, index, labels) ==
    /\ last = NoCall
    /\ i \in DOMAIN instances
    /\ index \in 0..(Len(instances[i].folders) - 1)
    /\ LET r == _load_target(instances[i], index, labels)
       IN  last' = [op |-> "_load_target", inst |-> i, index |-> index,
                    labels |-> labels, error |-> r.error,
                    folder |-> r.folder, target |-> r.target]
    /\ UNCHANGED <<appended, exists, instances>>

LoadPaths(i, index, listing_s1, listing_s2) ==
    /\ last = NoCall
    /\ i \in DOMAIN instances
    /\ index \in 0..(Len(instances[i].folders) - 1)
    /\ last' = [op |-> "_load_paths", inst |-> i, index |-> index,
                listing_s1 |-> listing_s1, listing_s2 |-> listing_s2,
                paths |-> _load_paths(instances[i], index,
                                      listing_s1, listing_s2)]
    /\ UNCHANGED <<appended, exists, instances>>

Length(i) ==
    /\ last = NoCall
    /\ i \in DOMAIN instances
    /\ last' = [op |-> "__len__", inst |-> i, result |-> __len__(instances[i])]
    /\ UNCHANGED <<appended, exists, instances>>

OnehotLabelsToNames(i, label_mask) ==
    /\ last = NoCall
    /\ i \in DOMAIN instances
    /\ LET r == _onehot_labels_to_names(instances[i], class_sets, label_mask)
       IN  last' = [op |-> "_onehot_labels_to_names", inst |-> i,
                    label_mask |-> label_mask, error |-> r.error,
                    labels |-> r.labels]
    /\ UNCHANGED <<appended, exists, instances>>

\* The caller takes the outcome of the call it made; the next call follows.
Return ==
    /\ last # NoCall
    /\ last' = NoCall
    /\ UNCHANGED <<appended, exists, instances>>

(***************************************************************************)
(* Inputs.                                                                 *)
(***************************************************************************)
\* names a label file may hold: classes with a 19-class image (two of them
\* with the same image), a class without one, the appended class, and a name
\* no vocabulary holds
LabelUniverse ==
    {"Pastures", "Continuous urban fabric", "Discontinuous urban fabric",
     "Port areas", "Sea and ocean", "Other features", "Tundra"}

\* every list of those names up to the bound, and each of the 43 classes alone
LabelLists ==
    SeqsUpTo(LabelUniverse, MaxLabels) \cup {<<c>> : c \in Range(class_sets_43)}

\* a manifest is made of identifier characters, commas and newlines
ManifestAlphabet == {"a", ",", "\n"}

Manifests == SeqsUpTo(ManifestAlphabet, MaxManifestLen)

\* a manifest of one sample
OneSample == <<"a">>

\* a manifest of two samples, a and aa
TwoSamples == <<"a", "\n", "a", "a">>

S1Codes == {<<"V", "V">>, <<"V", "H">>}

S2Codes == {<<"B", "0", "2">>, <<"B", "0", "8">>, <<"B", "8", "A">>,
            <<"B", "0", "9">>, <<"B", "1", "1">>}

S1Listings == ListingsUpTo(S1Codes, Cardinality(S1Codes))

S2Listings == ListingsUpTo(S2Codes, MaxS2Files)

\* the sets of at most k positions of a mask of length n
RECURSIVE PositionSets(_, _)
PositionSets(n, k) ==
    IF k = 0 THEN {{}}
    ELSE LET smaller == PositionSets(n, k - 1)
         IN  smaller \cup {Q \cup {p} : Q \in smaller, p \in 0..(n - 1)}

\* the boolean masks of length n with at most the bound of set positions
Masks(n) ==
    {[p \in 1..n |-> (p - 1) \in Q] : Q \in PositionSets(n, MaxSetPositions)}

(***************************************************************************)
(* Spec: the vocabulary and the labels.  The dataset is on disk and        *)
(* instances are built as init_bigearthnet builds them (test split,        *)
(* Sentinel-2 bands), with either class count and with or without the      *)
(* extra class; labels are loaded from any instance.                       *)
(***************************************************************************)
Init ==
    /\ appended = (19 :> <<>>) @@ (43 :> <<>>)
    /\ exists = RootEntries
    /\ instances = <<>>
    /\ last = NoCall

ConstructDataset ==
    \E num_classes \in {19, 43}, other_features \in BOOLEAN :
        Construct(MaxInstances, "test", "s2", num_classes, FALSE,
                  other_features, OneSample)

LoadAnyTarget ==
    \E i \in 1..MaxInstances, labels \in LabelLists : LoadTarget(i, 0, labels)

Next == ConstructDataset \/ LoadAnyTarget \/ Return

Spec == Init /\ [][Next]_vars

(***************************************************************************)
(* SpecVerify: construction over every combination of files under root,    *)
(* with legal and illegal arguments.                                       *)
(***************************************************************************)
InitVerify ==
    /\ appended = (19 :> <<>>) @@ (43 :> <<>>)
    /\ exists \in SUBSET RootEntries
    /\ instances = <<>>
    /\ last = NoCall

ConstructAnyArgs ==
    \E split \in {"test", "x"}, bands \in {"s1", "s2", "all", "x"},
       num_classes \in {19, 43, 20}, download \in BOOLEAN,
       other_features \in BOOLEAN :
        Construct(MaxIsolatedInstances, split, bands, num_classes, download,
                  other_features, OneSample)

LengthOfAny == \E i \in 1..MaxInstances : Length(i)

NextVerify == ConstructAnyArgs \/ LengthOfAny \/ Return

SpecVerify == InitVerify /\ [][NextVerify]_vars

(***************************************************************************)
(* SpecManifest: construction over every manifest content, and len().      *)
(***************************************************************************)
ConstructFromManifest ==
    \E content \in Manifests :
        Construct(MaxIsolatedInstances, "test", "s2", 19, FALSE, FALSE,
                  content)

NextManifest == ConstructFromManifest \/ LengthOfAny \/ Return

SpecManifest == Init /\ [][NextManifest]_vars

(***************************************************************************)
(* SpecPaths: each band selection over every order glob can list the       *)
(* raster files of the two folders in.                                     *)
(***************************************************************************)
ConstructBands ==
    \E bands \in {"s1", "s2", "all"} :
        Construct(MaxIsolatedInstances, "test", bands, 19, FALSE, FALSE,
                  TwoSamples)

LoadAnyPaths ==
    \E i \in 1..MaxInstances, index \in 0..1,
       listing_s1 \in S1Listings, listing_s2 \in S2Listings :
        LoadPaths(i, index, listing_s1, listing_s2)

LoadTargetOfAny ==
    \E i \in 1..MaxInstances, index \in 0..1 :
        LoadTarget(i, index, <<"Pastures">>)

NextPaths == ConstructBands \/ LoadAnyPaths \/ LoadTargetOfAny \/ Return

SpecPaths == Init /\ [][NextPaths]_vars

(***************************************************************************)
(* SpecNames: decoding masks to names.  Instances are built as in Spec,    *)
(* and any of them decodes a mask of its own class count.                  *)
(***************************************************************************)
NamesOfAny ==
    /\ last = NoCall
    /\ \E i \in DOMAIN instances :
           \E label_mask \in Masks(instances[i].num_classes) :
               OnehotLabelsToNames(i, label_mask)

NextNames == ConstructDataset \/ NamesOfAny \/ Return

SpecNames == Init /\ [][NextNames]_vars

(***************************************************************************)
(* What the properties are stated with.  None of it is used by the model.  *)
(***************************************************************************)
\* the index of a name in the 43 classes of the class docstring
CanonicalIndex(name) ==
    (CHOOSE i \in DOMAIN class_sets_43 : class_sets_43[i] = name) - 1

IsCanonical(name) == name \in Range(class_sets_43)

\* the positions of a tensor that hold 1, as indices from 0
SetPositions(target) == {p - 1 : p \in {q \in DOMAIN target : target[q] = 1}}

OtherCount(names) ==
    Cardinality({i \in DOMAIN names : names[i] = "Other features"})

\* a step that is one constructor call
ConstructStep == last = NoCall /\ last'.op = "__init__"

(***************************************************************************)
(* C1: in 19-class mode (active class count 19 or 20), a label list made   *)
(* of names of the 43 classes yields a tensor of the active length whose   *)
(* set positions are exactly the label_converter images of the names'      *)
(* 43-class indices, the names without an image dropped; no position       *)
(* outside 0..18 is set.                                                   *)
(***************************************************************************)
C1_Target19 ==
    (/\ last.op = "_load_target"
     /\ instances[last.inst].num_classes \in {19, 20}
     /\ \A i \in DOMAIN last.labels : IsCanonical(last.labels[i]))
    => /\ last.error = "none"
       /\ Len(last.target) = instances[last.inst].num_classes
       /\ \A p \in DOMAIN last.target : last.target[p] \in {0, 1}
       /\ SetPositions(last.target) =
            {label_converter[CanonicalIndex(last.labels[i])] :
                i \in {j \in DOMAIN last.labels :
                        CanonicalIndex(last.labels[j]) \in DOMAIN label_converter}}
       /\ SetPositions(last.target) \subseteq 0..18

\* an instance of 20 classes loaded Pastures and a class without an image
C1_Witness ==
    /\ last.op = "_load_target"
    /\ instances[last.inst].num_classes = 20
    /\ last.labels = <<"Pastures", "Port areas">>
    /\ last.error = "none"
    /\ SetPositions(last.target) = {4}

(***************************************************************************)
(* C2: the append of the "other" class is idempotent on the vocabulary:    *)
(* however many constructions ask for it, each name list holds "Other      *)
(* features" at most once, as its last entry, and is one entry longer      *)
(* than the base list, never two.                                          *)
(***************************************************************************)
C2_AppendOnce ==
    \A k \in {19, 43} :
        /\ OtherCount(class_sets[k]) <= 1
        /\ Len(class_sets[k]) \in {k, k + 1}
        /\ SubSeq(class_sets[k], 1, k) = class_sets_initial[k]
        /\ (\E i \in DOMAIN instances : instances[i].other_features)
            => /\ Len(class_sets[k]) = k + 1
               /\ class_sets[k][k + 1] = "Other features"

\* two constructions asked for the extra class
C2_Witness ==
    /\ Len(instances) >= 2
    /\ instances[1].other_features
    /\ instances[2].other_features
    /\ Len(class_sets[19]) = 20
    /\ Len(class_sets[43]) = 44

(***************************************************************************)
(* C3: an instance constructed with the other-features flag has one class  *)
(* more than it asked for (20 or 44) whatever was constructed before it,   *)
(* and an instance constructed without the flag has 19 or 43; the label    *)
(* tensors have that length.                                               *)
(***************************************************************************)
C3_FlagAddsOneClass ==
    /\ \A i \in DOMAIN instances :
        /\ instances[i].other_features
            => instances[i].num_classes = instances[i].requested + 1
        /\ ~instances[i].other_features
            => instances[i].num_classes \in {19, 43}
    /\ (last.op = "_load_target" /\ last.error = "none")
        => Len(last.target) =
            instances[last.inst].requested
            + (IF instances[last.inst].other_features THEN 1 ELSE 0)

(***************************************************************************)
(* C4, as claimed: the label file is taken from the Sentinel-2 folder when *)
(* the band selection is "s2" or "all", from the Sentinel-1 folder when it *)
(* is "s1".                                                                *)
(***************************************************************************)
C4_LabelFolderAsClaimed ==
    last.op = "_load_target"
    => last.folder =
        IF instances[last.inst].bands \in {"s2", "all"}
        THEN instances[last.inst].folders[last.index + 1].s2
        ELSE instances[last.inst].folders[last.index + 1].s1

(***************************************************************************)
(* C4, amended: the label file is taken from the Sentinel-2 folder only    *)
(* when the band selection is "s2"; for "s1" and for "all" it is taken     *)
(* from the Sentinel-1 folder.                                             *)
(***************************************************************************)
C4_LabelFolder ==
    last.op = "_load_target"
    => last.folder =
        IF instances[last.inst].bands = "s2"
        THEN <<root, "sentinel-2",
               instances[last.inst].folders[last.index + 1].s2[3]>>
        ELSE <<root, "sentinel-1",
               instances[last.inst].folders[last.index + 1].s1[3]>>

\* labels were loaded by an instance of the combined selection
C4_Witness ==
    /\ last.op = "_load_target"
    /\ instances[last.inst].bands = "all"
    /\ last.index = 1
    /\ last.folder = <<root, "sentinel-1", <<"a", "a">>>>

(***************************************************************************)
(* C5: for every manifest content, len() is the number of non-empty lines  *)
(* of the manifest.                                                        *)
(***************************************************************************)
\* a non-empty line starts at each character that is no newline and follows
\* a newline or starts the content
NonEmptyLines(content) ==
    Cardinality({i \in DOMAIN content :
                    /\ content[i] # "\n"
                    /\ (i = 1 \/ content[i - 1] = "\n")})

C5_LenIsNonEmptyLines ==
    last.op = "__len__"
    => last.result = NonEmptyLines(instances[last.inst].manifest)

(***************************************************************************)
(* C6: a construction with download disabled that finds the data missing   *)
(* (neither the three manifests with the selected directories, nor the     *)
(* selected archives with the three manifests) raises the not-found error, *)
(* downloads nothing and adds no instance; a construction that finds the   *)
(* data present returns an instance and downloads nothing.                 *)
(***************************************************************************)
Selected(bands) == IF bands = "all" THEN {"s1", "s2"} ELSE {bands}

ManifestFiles ==
    {"bigearthnet-train.csv", "bigearthnet-val.csv", "bigearthnet-test.csv"}

Extracted(fs, bands) ==
    /\ ManifestFiles \subseteq fs
    /\ \A k \in Selected(bands) :
        (IF k = "s1" THEN "sentinel-1" ELSE "sentinel-2") \in fs

Archived(fs, bands) ==
    /\ ManifestFiles \subseteq fs
    /\ \A k \in Selected(bands) :
        (IF k = "s1" THEN "BigEarthNet-S1-v1.0.tar.gz"
                     ELSE "BigEarthNet-S2-v1.0.tar.gz") \in fs

Downloads(events) == {i \in DOMAIN events : events[i].ev = "download_url"}

LegalArgs(args) ==
    /\ args.split \in {"train", "val", "test"}
    /\ args.bands \in {"s1", "s2", "all"}
    /\ args.num_classes \in {19, 43}

C6_MissingDataRaises ==
    [][(ConstructStep /\ LegalArgs(last'.args))
        => /\ (/\ ~last'.args.download
               /\ ~Extracted(exists, last'.args.bands)
               /\ ~Archived(exists, last'.args.bands))
              => /\ last'.error = "RuntimeError"
                 /\ Downloads(last'.events) = {}
                 /\ instances' = instances
           /\ (Extracted(exists, last'.args.bands)
               \/ Archived(exists, last'.args.bands))
              => /\ last'.error = "none"
                 /\ Downloads(last'.events) = {}
                 /\ Len(instances') = Len(instances) + 1]_vars

\* a construction without download found one archive and no manifest
C6_Witness ==
    /\ last.op = "__init__"
    /\ last.args.bands = "s2"
    /\ ~last.args.download
    /\ last.found = {"BigEarthNet-S2-v1.0.tar.gz"}
    /\ last.error = "RuntimeError"
    /\ instances = <<>>

(***************************************************************************)
(* C7: a construction with an illegal split, bands or num_classes fails    *)
(* with the assertion error before any file is tested, opened, extracted   *)
(* or downloaded and before the vocabulary changes.                        *)
(***************************************************************************)
C7_IllegalArgsFailFirst ==
    [][(ConstructStep /\ ~LegalArgs(last'.args))
        => /\ last'.error = "AssertionError"
           /\ last'.events = <<>>
           /\ UNCHANGED <<appended, exists, instances>>]_vars

\* bands = "x" was refused although every other argument was legal
C7_Witness ==
    /\ last.op = "__init__"
    /\ last.args.bands = "x"
    /\ last.args.split = "test"
    /\ last.args.num_classes = 19
    /\ last.args.other_features
    /\ last.error = "AssertionError"

(***************************************************************************)
(* C8: label_converter maps a subset of the 43-class indices onto the      *)
(* 19-class indices: every key is in 0..42, every value in 0..18, every    *)
(* index 0..18 is the image of a key, and some index is the image of more  *)
(* than one key.  The table is a class attribute no call assigns: this     *)
(* holds in every state, whatever instances exist.                         *)
(***************************************************************************)
C8_ConverterOntoNineteen ==
    Len(instances) \in Nat
    => /\ DOMAIN label_converter \subseteq 0..42
       /\ \A k \in DOMAIN label_converter : label_converter[k] \in 0..18
       /\ \A v \in 0..18 :
            \E k \in DOMAIN label_converter : label_converter[k] = v
       /\ \E k1, k2 \in DOMAIN label_converter :
            k1 # k2 /\ label_converter[k1] = label_converter[k2]

\* two classes with the same image were loaded and set one position
C8_Witness ==
    /\ last.op = "_load_target"
    /\ instances[last.inst].num_classes = 19
    /\ last.labels = <<"Continuous urban fabric", "Discontinuous urban fabric">>
    /\ SetPositions(last.target) = {0}

(***************************************************************************)
(* C9: whatever the instance and whatever was constructed before it, a     *)
(* label list with a name that is none of the 43 classes makes the load    *)
(* raise; it never yields a tensor.                                        *)
(***************************************************************************)
C9_UnknownNameRaises ==
    (/\ last.op = "_load_target"
     /\ \E i \in DOMAIN last.labels : ~IsCanonical(last.labels[i]))
    => last.error # "none"

(***************************************************************************)
(* C10: in combined mode the paths are the Sentinel-1 paths followed by    *)
(* the Sentinel-2 paths; the Sentinel-1 part is what the Sentinel-1        *)
(* selection yields (string order) and the Sentinel-2 part what the        *)
(* Sentinel-2 selection yields (band order), whatever order the folders    *)
(* are listed in.                                                          *)
(***************************************************************************)
\* the Sentinel-1 codes in string order
S1Order == << <<"V", "H">>, <<"V", "V">> >>

\* the Sentinel-2 codes in the band order of the class docstring
S2Order ==
    << <<"B", "0", "1">>, <<"B", "0", "2">>, <<"B", "0", "3">>,
       <<"B", "0", "4">>, <<"B", "0", "5">>, <<"B", "0", "6">>,
       <<"B", "0", "7">>, <<"B", "0", "8">>, <<"B", "8", "A">>,
       <<"B", "0", "9">>, <<"B", "1", "1">>, <<"B", "1", "2">> >>

\* the files of a listing, in the given order of codes, under folder
Ordered(folder, listing, order) ==
    LET codes == SelectSeq(order, LAMBDA c : c \in Range(listing))
    IN  [i \in DOMAIN codes |-> [folder |-> folder, code |-> codes[i]]]

C11_ActiveCountIsKey ==
    /\ \A i \in DOMAIN instances :
           /\ instances[i].num_classes \in DOMAIN class_sets
           /\ Len(class_sets[instances[i].num_classes])
                = instances[i].num_classes
    /\ last.op = "_onehot_labels_to_names"
       => /\ Len(last.label_mask) = instances[last.inst].num_classes
          /\ last.error = "none"
          /\ Len(last.labels)
               = Cardinality({p \in DOMAIN last.label_mask :
                                 last.label_mask[p]})

====
